---- MODULE Spec2Model ----
(***************************************************************************)
(* The production job lifecycle client of the TTS control panel:           *)
(*   - useProductionStore  (stores/production-store, src/unnamed/part_008) *)
(*   - connectSSE          (src/ui/src/api/production.ts)                  *)
(*   - useSSEProgress      (hooks/use-sse-progress, src/unnamed/part_000)  *)
(*   - handleGenerate      (components/production/GenerateButton.tsx)      *)
(* and the three stores handleGenerate reads its request from:             *)
(*   - useEditorStore with useFormatDetection (src/unnamed/part_007,       *)
(*     hooks/use-format-detection.ts)                                      *)
(*   - useVoiceStore       (src/ui/src/stores/voice-store.ts)              *)
(*   - useStyleStore with PresetSelector, ModalitySelector, StyleControls  *)
(*     (src/unnamed/part_006, src/unnamed/part_004, components/style)      *)
(*                                                                         *)
(* One action is one task of the browser's event loop: a click handler, a  *)
(* continuation of handleGenerate after its await, an EventSource          *)
(* "progress" listener call or an EventSource onerror call.  A store       *)
(* change made by a task re-renders GenerateButton before the next task    *)
(* (the store is a synchronous external store), and the re-render runs     *)
(* the effect of useSSEProgress when one of its dependencies changed, so   *)
(* every action ends with Commit.                                          *)
(*                                                                         *)
(* progress is a fraction in the source; here it is kept in thousandths    *)
(* (0.405 is 405, 1 is 1000).                                              *)
(***************************************************************************)
EXTENDS Integers, Sequences, FiniteSets, TLC

\* ---------------------------------------------------------------- bounds
MaxClicks == 2          \* Generate clicks in one run
MaxFrames == 2          \* well-formed progress frames delivered in one run

\* ------------------------------------------------------- input alphabets
Statuses == {"idle", "pending", "running", "completed", "failed"}
EventStatuses == {"pending", "running", "completed", "failed"}
ProgressValues == {0, 405}
Messages == {"", "synthesizing"}
AudioUrls == {"", "/files/abc123.wav"}
EventErrors == {"", "boom"}
RejectReasons == {"HTTP 500", "Error al iniciar generacion"}

WithOptional(E, f, V) == E \cup { e @@ (f :> v) : e \in E, v \in V }

\* ProgressEvent: audio_url and error are optional fields.  onProgress reads
\* audio_url only of a completed frame and error only of a failed frame, so
\* the frames drawn here carry audio_url only when completed and error only
\* when failed.
ProgressEvent ==
    LET Plain(S) == [status : S, progress : ProgressValues, message : Messages]
    IN  Plain({"pending", "running"})
        \cup WithOptional(Plain({"completed"}), "audio_url", AudioUrls)
        \cup WithOptional(Plain({"failed"}), "error", EventErrors)

NoEvent == [status |-> "none", progress |-> 0, message |-> ""]

JobName(n) == "job" \o ToString(n)

VARIABLES
    store,      \* the state of useProductionStore
    deps,       \* <<jobId, status>> the effect of useSSEProgress last ran with
    cleanup,    \* the connection whose close handle that effect returned, 0 = none
    conns,      \* the EventSource objects created by connectSSE, in creation order
    inflight,   \* unresolved startProduction promises
    clicks,     \* Generate clicks so far
    frames,     \* progress frames delivered so far
    issued,     \* job ids the service has issued so far
    last,       \* the task that ran last and its input (before: the progress
                \* the store held when a progress frame arrived, else 0)
    request,    \* the ProductionRequest of the last startProduction call
    editor,     \* the state of useEditorStore
    voice,      \* the state of useVoiceStore
    style,      \* the state of useStyleStore
    detect,     \* useFormatDetection: the armed timer and the detectContent
                \* calls that have not settled
    build       \* StyleControls: the buildInstruct calls that have not settled

vars == <<store, deps, cleanup, conns, inflight, clicks, frames, issued, last,
          request, editor, voice, style, detect, build>>

\* the variables of the production job lifecycle
production == <<store, deps, cleanup, conns, inflight, clicks, frames, issued>>

\* the variables of the editor, voice and style panels
panels == <<editor, voice, style, detect, build>>

\* --------------------------------------------------------- ProgressBar
\* Math.round(progress * 100), progress in thousandths
Percentage(p) == (p + 5) \div 10

BarRenderedAlsoWhenCompleted(s) == s.status # "idle"

\* ProgressBar renders something (it returns null when idle or completed)
BarRendered(s) == ~(s.status = "idle" \/ s.status = "completed")

\* the <p> with the error text, inside what ProgressBar renders
ErrorRendered(s) == BarRendered(s) /\ s.status = "failed"

\* AudioResult renders the player (it returns null otherwise)
AudioRendered(s) == ~(s.status # "completed" \/ s.audioUrl = "")

\* what ProgressBar and AudioResult show for a snapshot of the store
Render(s) ==
    [showBar |-> BarRendered(s),
     percentage |-> Percentage(s.progress),
     errorVisible |-> ErrorRendered(s),
     audio |-> AudioRendered(s)]

\* ------------------------------------------------------ production store
InitialState ==
    [jobId |-> "", status |-> "idle", progress |-> 0, message |-> "",
     audioUrl |-> "", error |-> ""]

setJobKeepsArtifact(s, id) ==
    [s EXCEPT !.jobId = id, !.status = "pending", !.progress = 0,
              !.message = "Iniciando...", !.error = ""]

setJob(s, id) ==
    [s EXCEPT !.jobId = id, !.status = "pending", !.progress = 0,
              !.message = "Iniciando...", !.audioUrl = "", !.error = ""]

setProgressKeepsMessage(s, st, p, m) ==
    [s EXCEPT !.status = st, !.progress = p]

setProgressClamped(s, st, p, m) ==
    [s EXCEPT !.status = st, !.progress = IF p < @ THEN @ ELSE p, !.message = m]

setProgress(s, st, p, m) ==
    [s EXCEPT !.status = st, !.progress = p, !.message = m]

setCompletedKeepsProgress(s, url) ==
    [s EXCEPT !.status = "completed", !.message = "Completado", !.audioUrl = url]

setCompleted(s, url) ==
    [s EXCEPT !.status = "completed", !.progress = 1000,
              !.message = "Completado", !.audioUrl = url]

setFailedClearsAudio(s, e) ==
    [s EXCEPT !.status = "failed", !.message = e, !.error = e, !.audioUrl = ""]

setFailedMessageOnly(s, e) ==
    [s EXCEPT !.status = "failed", !.message = e]

setFailed(s, e) ==
    [s EXCEPT !.status = "failed", !.message = e, !.error = e]

resetKeepsError(s) ==
    [s EXCEPT !.jobId = "", !.status = "idle", !.progress = 0,
              !.message = "", !.audioUrl = ""]

reset(s) ==
    [s EXCEPT !.jobId = "", !.status = "idle", !.progress = 0,
              !.message = "", !.audioUrl = "", !.error = ""]

\* ------------------------------------------------------------ connectSSE
NewSource(id) ==
    [jobId |-> id, readyState |-> "OPEN", onProgressCalls |-> 0,
     onErrorCalls |-> 0, terminalSeen |-> FALSE, errorArg |-> "",
     parseFailed |-> FALSE]

connectSSE(cs, id) == Append(cs, NewSource(id))

SourceCloseForgotten(cs, c) == cs

\* source.close()
SourceClose(cs, c) == [cs EXCEPT ![c].readyState = "CLOSED"]

IsTerminalFrame(ev) == ev.status = "completed" \/ ev.status = "failed"

\* the "progress" listener, after onProgress(data) returned
ProgressListener(cs, c, ev) ==
    LET called == [cs EXCEPT ![c].onProgressCalls = @ + 1,
                             ![c].terminalSeen = @ \/ IsTerminalFrame(ev)]
    IN  IF IsTerminalFrame(ev) THEN SourceClose(called, c) ELSE called

ParseFailureCloses(cs, c) == SourceClose([cs EXCEPT ![c].parseFailed = TRUE], c)

\* the "progress" listener when JSON.parse(e.data) throws: the listener ends
\* there, before onProgress and before the terminal check
ParseFailure(cs, c) == [cs EXCEPT ![c].parseFailed = TRUE]

CloseHandleReopens(cs, c) ==
    [cs EXCEPT ![c].readyState = IF @ = "CLOSED" THEN "OPEN" ELSE "CLOSED"]

\* the function connectSSE returns: () => source.close()
CloseHandle(cs, c) == SourceClose(cs, c)

ConnectionLostBlank == ""

ConnectionLost == "Connection lost"

\* source.onerror
ErrorListener(cs, c) ==
    SourceClose([cs EXCEPT ![c].onErrorCalls = @ + 1,
                           ![c].errorArg = ConnectionLost], c)

\* -------------------------------------------------------- useSSEProgress
Truthy(ev, f) == f \in DOMAIN ev /\ ev[f] # ""

\* event.error ?? event.message
ErrorIfTruthyOrMessage(ev) == IF Truthy(ev, "error") THEN ev.error ELSE ev.message

\* event.error ?? event.message
ErrorOrMessage(ev) == IF "error" \in DOMAIN ev THEN ev.error ELSE ev.message

\* the onProgress callback handed to connectSSE
onProgress(s, ev) ==
    IF ev.status = "completed" /\ Truthy(ev, "audio_url")
    THEN setCompleted(s, ev.audio_url)
    ELSE IF ev.status = "failed"
         THEN setFailed(s, ErrorOrMessage(ev))
         ELSE setProgress(s, ev.status, ev.progress, ev.message)

\* the onError callback handed to connectSSE
onError(s, e) == setFailed(s, e)

EffectReturnsEarlyNotOnCompleted(s) ==
    s.jobId = "" \/ s.status = "failed" \/ s.status = "idle"

EffectReturnsEarlyNotOnFailed(s) ==
    s.jobId = "" \/ s.status = "completed" \/ s.status = "idle"

\* the early return of the effect
EffectReturnsEarly(s) ==
    s.jobId = "" \/ s.status = "completed" \/ s.status = "failed"
                 \/ s.status = "idle"

EffectCleanupMissing(cs, h) == cs

\* the function the previous run of the effect returned (close, or nothing)
EffectCleanup(cs, h) == IF h # 0 THEN CloseHandle(cs, h) ELSE cs

\* The re-render after a task left the store as s and the connections as cs:
\* when jobId or status differ from the last run of the effect, its cleanup
\* runs and then the effect runs again.
Commit(s, cs) ==
    /\ store' = s
    /\ IF <<s.jobId, s.status>> = deps
       THEN /\ conns' = cs
            /\ UNCHANGED <<deps, cleanup>>
       ELSE LET closed == EffectCleanup(cs, cleanup)
            IN  /\ deps' = <<s.jobId, s.status>>
                /\ IF EffectReturnsEarly(s)
                   THEN /\ conns' = closed
                        /\ cleanup' = 0
                   ELSE /\ conns' = connectSSE(closed, s.jobId)
                        /\ cleanup' = Len(closed) + 1

\* ---------------------------------------------------------- string helpers
Whitespace == {" ", "\n"}

RECURSIVE TrimStart(_)
TrimStart(s) ==
    IF Len(s) > 0 /\ SubSeq(s, 1, 1) \in Whitespace
    THEN TrimStart(SubSeq(s, 2, Len(s)))
    ELSE s

RECURSIVE TrimEnd(_)
TrimEnd(s) ==
    IF Len(s) > 0 /\ SubSeq(s, Len(s), Len(s)) \in Whitespace
    THEN TrimEnd(SubSeq(s, 1, Len(s) - 1))
    ELSE s

\* String.prototype.trim
Trim(s) == TrimEnd(TrimStart(s))

\* String.prototype.startsWith
StartsWith(s, p) == Len(s) >= Len(p) /\ SubSeq(s, 1, Len(p)) = p

\* String.prototype.indexOf, 1-based; 0 when p does not occur in s
IndexOf(s, p) ==
    LET at == {i \in 1..(Len(s) - Len(p) + 1) : SubSeq(s, i, i + Len(p) - 1) = p}
    IN  IF at = {} THEN 0 ELSE CHOOSE i \in at : \A j \in at : i <= j

\* String.prototype.replace with a string pattern: the first occurrence only
ReplaceFirst(s, p, r) ==
    LET i == IndexOf(s, p)
    IN  IF i = 0 THEN s
        ELSE SubSeq(s, 1, i - 1) \o r \o SubSeq(s, i + Len(p), Len(s))

\* ---------------------------------------------------------- editor store
ContentFormat == {"plain_text", "podcast_script", "audiobook_json"}

InitialEditor ==
    [content |-> "", format |-> "plain_text", formatLabel |-> "Texto plano",
     formatColor |-> "#4A90D9", formatDescription |-> "",
     detectedSpeakers |-> <<>>, fileName |-> ""]

setContent(e, c) == [e EXCEPT !.content = c]

setFormat(e, format, label, description, color, speakers) ==
    [e EXCEPT !.format = format, !.formatLabel = label,
              !.formatDescription = description, !.formatColor = color,
              !.detectedSpeakers = speakers]

\* ----------------------------------------------------------- voice store
EmptyMap == [k \in {} |-> ""]

InitialVoice == [selectedVoice |-> "", speakerVoiceMap |-> EmptyMap]

setSelectedVoice(v, selectedVoice) == [v EXCEPT !.selectedVoice = selectedVoice]

setSpeakerVoice(v, speaker, selectedVoice) ==
    [v EXCEPT !.speakerVoiceMap = (speaker :> selectedVoice) @@ @]

\* ------------------------------------------------------------- app store
language == "Spanish"
modelVersion == "1.7B"

\* ------------------------------------------------ the production request
NoFields == [k \in {} |-> ""]

NoRequest == [none |-> TRUE]

VoiceFieldsInEveryFormat(format, selectedVoice) ==
    IF selectedVoice # ""
    THEN IF StartsWith(selectedVoice, "qwen:")
         THEN "speaker" :> ReplaceFirst(selectedVoice, "qwen:", "")
         ELSE IF StartsWith(selectedVoice, "clone:")
              THEN "voice_name" :> ReplaceFirst(selectedVoice, "clone:", "")
              ELSE NoFields
    ELSE NoFields

\* voiceName and speaker of handleGenerate: the one that is not undefined
\* is a field of the request body, the other is dropped by JSON.stringify
VoiceFields(format, selectedVoice) ==
    IF format # "podcast_script" /\ selectedVoice # ""
    THEN IF StartsWith(selectedVoice, "qwen:")
         THEN "speaker" :> ReplaceFirst(selectedVoice, "qwen:", "")
         ELSE IF StartsWith(selectedVoice, "clone:")
              THEN "voice_name" :> ReplaceFirst(selectedVoice, "clone:", "")
              ELSE NoFields
    ELSE NoFields

\* req of handleGenerate as startProduction serialises it
BuildRequest(e, v, st) ==
    [content |-> e.content, format |-> e.format,
     model_version |-> modelVersion, language |-> language]
    @@ VoiceFields(e.format, v.selectedVoice)
    @@ (IF st.computedInstruct # "" THEN "instruct" :> st.computedInstruct
        ELSE NoFields)
    @@ (IF e.format = "podcast_script"
        THEN "speaker_voices" :> v.speakerVoiceMap
        ELSE NoFields)

\* ----------------------------------------------------------- style store
\* selectedModality: string | null
Null == "<null>"

\* the options fetchEmotions answers with: presets, then modalities
PresetItems ==
    <<[name |-> "Narrador", instruct |-> "Voz de narrador"],
      [name |-> "Noticias", instruct |-> "Tono de noticiero"]>>

ModalityItems == <<[name |-> "Susurro", instruct |-> "Susurra"]>>

Emotions == {"neutral", "happy"}

\* the instruct texts buildInstruct answers with
BuiltInstructs == {"Tono neutral", "Tono alegre"}

InitialStyle ==
    [preset |-> "(custom)", emotion |-> "neutral", emotionLevel |-> "mid",
     style |-> "conversational", pace |-> "normal", intensity |-> "normal",
     customInstruct |-> "", computedInstruct |-> "", selectedModality |-> Null,
     presets |-> <<>>, modalities |-> <<>>]

Names(items) == {items[i].name : i \in DOMAIN items}

\* Array.prototype.find by name: the items found, first one first
FindByName(items, name) == SelectSeq(items, LAMBDA i : i.name = name)

setPreset(st, preset) == [st EXCEPT !.preset = preset, !.selectedModality = Null]

setEmotion(st, emotion) == [st EXCEPT !.emotion = emotion]

setComputedInstruct(st, computedInstruct) ==
    [st EXCEPT !.computedInstruct = computedInstruct]

setSelectedModality(st, modality) ==
    IF modality # Null
    THEN LET found == FindByName(st.modalities, modality)
         IN  [st EXCEPT !.selectedModality = modality,
                        !.preset = "(modality)",
                        !.computedInstruct =
                            IF found = <<>> THEN "" ELSE found[1].instruct]
    ELSE [st EXCEPT !.selectedModality = Null]

setOptions(st, presets, modalities) ==
    [st EXCEPT !.presets = presets, !.modalities = modalities]

resetStyle(st) ==
    [st EXCEPT !.preset = "(custom)", !.emotion = "neutral",
               !.emotionLevel = "mid", !.style = "conversational",
               !.pace = "normal", !.intensity = "normal",
               !.customInstruct = "", !.computedInstruct = "",
               !.selectedModality = Null]

\* PresetSelector.handleChange
handleChange(st, value) ==
    LET cleared == setSelectedModality(setPreset(st, value), Null)
        found == FindByName(st.presets, value)
    IN  IF value # "(custom)" /\ found # <<>>
        THEN setComputedInstruct(cleared, found[1].instruct)
        ELSE cleared

\* the onClick of a button of ModalitySelector
ModalityToggle(st, name) ==
    setSelectedModality(st, IF st.selectedModality = name THEN Null ELSE name)

\* StyleControls
isCustom(st) == st.preset = "(custom)"

\* what the rebuild callback of StyleControls depends on
RebuildDeps(st) ==
    <<st.emotion, st.emotionLevel, st.style, st.pace, st.intensity,
      st.customInstruct, isCustom(st)>>

\* rebuild up to its await: the buildInstruct calls in flight after it
rebuild(st, calls) == IF ~isCustom(st) THEN calls ELSE calls \cup {st.emotion}

\* The re-render after a task left the style store as st: the effect of
\* StyleControls runs rebuild when rebuild is a new callback.
StyleCommit(st) ==
    /\ style' = st
    /\ build' = IF RebuildDeps(st) = RebuildDeps(style)
                THEN build
                ELSE rebuild(st, build)

\* --------------------------------------------------- useFormatDetection
Contents == {"", "  ", "hola", "Ana: hola"}

\* the ContentDetectResult values detectContent answers with
DetectResults ==
    {[format |-> "plain_text", label |-> "Texto plano",
      description |-> "Texto sin formato", color |-> "#4A90D9",
      speakers |-> <<>>],
     [format |-> "podcast_script", label |-> "Podcast",
      description |-> "Guion con hablantes", color |-> "#E67E22",
      speakers |-> <<"Ana">>],
     [format |-> "audiobook_json", label |-> "Audiolibro",
      description |-> "Capitulos en JSON", color |-> "#27AE60",
      speakers |-> <<>>]}

NoDetection == [timer |-> {}, calls |-> {}]

\* The effect of useFormatDetection for the content c: what it does to the
\* editor store.
DetectionEffectStore(e, c) ==
    IF Trim(c) = ""
    THEN setFormat(e, "plain_text", "Texto plano", "", "#4A90D9", <<>>)
    ELSE e

\* clearTimeout(timerRef.current): a timer that has not fired never fires
ClearTimeout(d) == [d EXCEPT !.timer = {}]

\* The effect of useFormatDetection for the content c: what it does to the
\* timer.
DetectionEffectTimer(d, c) ==
    IF Trim(c) = ""
    THEN ClearTimeout(d)
    ELSE [ClearTimeout(d) EXCEPT !.timer = {c}]

\* The re-render after a task left the editor store as e: the effect of
\* useFormatDetection runs when the content changed.
EditorCommit(e) ==
    IF e.content = editor.content
    THEN /\ editor' = e
         /\ UNCHANGED detect
    ELSE /\ editor' = DetectionEffectStore(e, e.content)
         /\ detect' = DetectionEffectTimer(detect, e.content)

\* ------------------------------------------------------------------ Init
\* the production panel after mount, nothing sent yet
Mounted ==
    /\ store = InitialState
    /\ deps = <<"", "idle">>
    /\ cleanup = 0
    /\ conns = <<>>
    /\ inflight = 0
    /\ clicks = 0
    /\ frames = 0
    /\ issued = 0
    /\ request = NoRequest
    /\ last = [op |-> "mount", conn |-> 0, ev |-> NoEvent, arg |-> "",
                before |-> 0]

\* The editor holds a text and a single voice is chosen; the detection of
\* the text and the buildInstruct call of the mount have been rejected.
Init ==
    /\ Mounted
    /\ editor = setContent(InitialEditor, "hola")
    /\ voice = setSelectedVoice(InitialVoice, "qwen:Vivian")
    /\ style = InitialStyle
    /\ detect = NoDetection
    /\ build = {}

\* --------------------------------------------------------------- actions
isRunning == store.status = "pending" \/ store.status = "running"

\* !content.trim()
ContentIsBlank(c) == Trim(c) = ""

\* A click on the Generate button: handleGenerate up to its await.
handleGenerate ==
    /\ ~isRunning
    /\ ~ContentIsBlank(editor.content)
    /\ clicks < MaxClicks
    /\ clicks' = clicks + 1
    /\ inflight' = inflight + 1
    /\ request' = BuildRequest(editor, voice, style)
    /\ Commit(reset(store), conns)
    /\ last' = [op |-> "handleGenerate", conn |-> 0, ev |-> NoEvent, arg |-> "",
                before |-> 0]
    /\ UNCHANGED <<frames, issued, panels>>

\* handleGenerate called while the content is blank: it returns at once.
handleGenerateBlank ==
    /\ ContentIsBlank(editor.content)
    /\ last' = [op |-> "blank", conn |-> 0, ev |-> NoEvent, arg |-> "",
                before |-> 0]
    /\ UNCHANGED <<production, request, panels>>

\* startProduction resolved: const { job_id } = await ...; setJob(job_id)
SubmitResolved ==
    /\ inflight > 0
    /\ inflight' = inflight - 1
    /\ issued' = issued + 1
    /\ Commit(setJob(store, JobName(issued + 1)), conns)
    /\ last' = [op |-> "setJob", conn |-> 0, ev |-> NoEvent,
                arg |-> JobName(issued + 1), before |-> 0]
    /\ UNCHANGED <<clicks, frames, request, panels>>

\* startProduction rejected: the catch branch of handleGenerate
SubmitRejected(reason) ==
    /\ inflight > 0
    /\ inflight' = inflight - 1
    /\ Commit(setFailed(store, reason), conns)
    /\ last' = [op |-> "catch", conn |-> 0, ev |-> NoEvent, arg |-> reason,
                before |-> 0]
    /\ UNCHANGED <<clicks, frames, issued, request, panels>>

\* A well-formed "progress" frame arrives on an EventSource that is not closed.
ProgressFrame(c, ev) ==
    /\ conns[c].readyState = "OPEN"
    /\ frames < MaxFrames
    /\ frames' = frames + 1
    /\ Commit(onProgress(store, ev), ProgressListener(conns, c, ev))
    /\ last' = [op |-> "progress", conn |-> c, ev |-> ev, arg |-> "",
                before |-> store.progress]
    /\ UNCHANGED <<inflight, clicks, issued, request, panels>>

\* The transport of an EventSource that is not closed fails.
TransportError(c) ==
    /\ conns[c].readyState = "OPEN"
    /\ Commit(onError(store, ConnectionLost), ErrorListener(conns, c))
    /\ last' = [op |-> "onerror", conn |-> c, ev |-> NoEvent, arg |-> "",
                before |-> 0]
    /\ UNCHANGED <<inflight, clicks, frames, issued, request, panels>>

\* A "progress" frame whose data is not JSON arrives on an EventSource that
\* is not closed.
MalformedFrame(c) ==
    /\ conns[c].readyState = "OPEN"
    /\ Commit(store, ParseFailure(conns, c))
    /\ last' = [op |-> "malformed", conn |-> c, ev |-> NoEvent, arg |-> "",
                before |-> 0]
    /\ UNCHANGED <<inflight, clicks, frames, issued, request, panels>>

Next ==
    \/ handleGenerate
    \/ SubmitResolved
    \/ \E reason \in RejectReasons : SubmitRejected(reason)
    \/ \E c \in DOMAIN conns : \E ev \in ProgressEvent : ProgressFrame(c, ev)
    \/ \E c \in DOMAIN conns : TransportError(c)
    \/ \E c \in DOMAIN conns : MalformedFrame(c)

Spec == Init /\ [][Next]_vars

\* Some connection that is not closed delivers a terminal frame or fails at
\* the transport.
StreamEnds ==
    \E c \in DOMAIN conns :
        \/ TransportError(c)
        \/ \E ev \in ProgressEvent : IsTerminalFrame(ev) /\ ProgressFrame(c, ev)

\* Spec, where a stream that stays open eventually ends.
LiveSpec == Spec /\ WF_vars(StreamEnds)

\* ------------------------------------------- the request of handleGenerate
\* the values SingleVoiceSelector offers: qwen:<speaker>, clone:<profile name>
SelectedVoices == {"", "qwen:Vivian", "clone:mi voz", "clone:qwen:Ana"}

\* the maps PodcastVoiceMapper leaves: a detected speaker to a voice name
SpeakerVoiceMaps ==
    {EmptyMap, setSpeakerVoice(InitialVoice, "Ana", "Vivian").speakerVoiceMap}

\* The three stores in any of the states the panels leave them in, nothing
\* sent yet.
RequestInit ==
    /\ Mounted
    /\ \E c \in Contents :
          editor \in {setContent(InitialEditor, c)}
                     \cup {setFormat(setContent(InitialEditor, c), r.format,
                                     r.label, r.description, r.color,
                                     r.speakers) : r \in DetectResults}
    /\ \E v \in SelectedVoices : \E m \in SpeakerVoiceMaps :
          voice = [setSelectedVoice(InitialVoice, v) EXCEPT !.speakerVoiceMap = m]
    /\ \E i \in {""} \cup BuiltInstructs :
          style = setComputedInstruct(InitialStyle, i)
    /\ detect = NoDetection
    /\ build = {}

RequestNext ==
    \/ handleGenerate
    \/ handleGenerateBlank

RequestSpec == RequestInit /\ [][RequestNext]_vars

\* ------------------------------------------------- the editor, by itself
\* the panels after mount: the effects of useFormatDetection and of
\* StyleControls have run once
PanelsMounted ==
    /\ editor = DetectionEffectStore(InitialEditor, InitialEditor.content)
    /\ detect = DetectionEffectTimer(NoDetection, InitialEditor.content)
    /\ voice = InitialVoice
    /\ style = InitialStyle
    /\ build = rebuild(InitialStyle, {})

PanelTask(op, arg) ==
    last' = [op |-> op, conn |-> 0, ev |-> NoEvent, arg |-> arg, before |-> 0]

\* The text of the editor changes: onChange of the Textarea, or a file read
\* by FileUploader.
EditContent(c) ==
    /\ c # editor.content
    /\ EditorCommit(setContent(editor, c))
    /\ PanelTask("setContent", c)
    /\ UNCHANGED <<production, request, voice, style, build>>

\* The timer of useFormatDetection fires: its callback up to the await.
TimerFires ==
    /\ detect.timer # {}
    /\ detect' = [timer |-> {}, calls |-> detect.calls \cup detect.timer]
    /\ PanelTask("timer", CHOOSE c \in detect.timer : TRUE)
    /\ UNCHANGED <<production, request, editor, voice, style, build>>

\* detectContent(c) resolved with r: the callback after its await.
DetectResolved(c, r) ==
    /\ c \in detect.calls
    /\ detect' = [detect EXCEPT !.calls = @ \ {c}]
    /\ editor' = setFormat(editor, r.format, r.label, r.description, r.color,
                           r.speakers)
    /\ PanelTask("detected", c)
    /\ UNCHANGED <<production, request, voice, style, build>>

\* detectContent(c) rejected: the empty catch.
DetectRejected(c) ==
    /\ c \in detect.calls
    /\ detect' = [detect EXCEPT !.calls = @ \ {c}]
    /\ PanelTask("detectFailed", c)
    /\ UNCHANGED <<production, request, editor, voice, style, build>>

EditorInit == Mounted /\ PanelsMounted

EditorNext ==
    \/ \E c \in Contents : EditContent(c)
    \/ TimerFires
    \/ \E c \in Contents : \E r \in DetectResults : DetectResolved(c, r)
    \/ \E c \in Contents : DetectRejected(c)

EditorSpec == EditorInit /\ [][EditorNext]_vars

\* ---------------------------------------------- the style panel, by itself
\* fetchEmotions resolved: setOptions
OptionsLoaded ==
    /\ style.presets = <<>>
    /\ StyleCommit(setOptions(style, PresetItems, ModalityItems))
    /\ PanelTask("setOptions", "")
    /\ UNCHANGED <<production, request, editor, voice, detect>>

\* An item of PresetSelector is chosen.
PresetChange(value) ==
    /\ value = "(custom)" \/ FindByName(style.presets, value) # <<>>
    /\ value # style.preset
    /\ StyleCommit(handleChange(style, value))
    /\ PanelTask("handleChange", value)
    /\ UNCHANGED <<production, request, editor, voice, detect>>

\* A button of ModalitySelector is clicked.
ModalityClick(name) ==
    /\ FindByName(style.modalities, name) # <<>>
    /\ StyleCommit(ModalityToggle(style, name))
    /\ PanelTask("modality", name)
    /\ UNCHANGED <<production, request, editor, voice, detect>>

\* The emotion select of StyleControls changes; StyleControls renders its
\* selects only while the preset is "(custom)".
EmotionChange(emotion) ==
    /\ isCustom(style)
    /\ emotion # style.emotion
    /\ StyleCommit(setEmotion(style, emotion))
    /\ PanelTask("setEmotion", emotion)
    /\ UNCHANGED <<production, request, editor, voice, detect>>

\* buildInstruct resolved with instruct: rebuild after its await.
BuildResolved(call, instruct) ==
    /\ call \in build
    /\ style' = setComputedInstruct(style, instruct)
    /\ build' = build \ {call}
    /\ PanelTask("built", instruct)
    /\ UNCHANGED <<production, request, editor, voice, detect>>

\* buildInstruct rejected: the empty catch of rebuild.
BuildRejected(call) ==
    /\ call \in build
    /\ build' = build \ {call}
    /\ PanelTask("buildFailed", call)
    /\ UNCHANGED <<production, request, editor, voice, style, detect>>

\* reset of the style store
StyleReset ==
    /\ StyleCommit(resetStyle(style))
    /\ PanelTask("resetStyle", "")
    /\ UNCHANGED <<production, request, editor, voice, detect>>

StyleInit == Mounted /\ PanelsMounted

StyleNext ==
    \/ OptionsLoaded
    \/ \E value \in {"(custom)"} \cup Names(PresetItems) : PresetChange(value)
    \/ \E name \in Names(ModalityItems) : ModalityClick(name)
    \/ \E emotion \in Emotions : EmotionChange(emotion)
    \/ \E call \in Emotions : \E instruct \in BuiltInstructs :
          BuildResolved(call, instruct)
    \/ \E call \in Emotions : BuildRejected(call)
    \/ StyleReset

StyleSpec == StyleInit /\ [][StyleNext]_vars


\* ------------------------------------------------------------ type check
TypeOK ==
    /\ store.status \in Statuses
    /\ cleanup \in 0..Len(conns)
    /\ inflight \in 0..MaxClicks
    /\ \A c \in DOMAIN conns : conns[c].readyState \in {"OPEN", "CLOSED"}
    /\ editor.content \in Contents
    /\ editor.format \in ContentFormat
    /\ voice.selectedVoice \in SelectedVoices
    /\ style.preset \in {"(custom)", "(modality)"} \cup Names(PresetItems)
    /\ style.selectedModality \in {Null} \cup Names(ModalityItems)
    /\ style.emotion \in Emotions
    /\ detect.timer \subseteq Contents /\ Cardinality(detect.timer) <= 1
    /\ detect.calls \subseteq Contents
    /\ build \subseteq Emotions

\* ---------------------------------------------------------------- claims
Terminal == {"completed", "failed"}

LiveConns == {c \in DOMAIN conns : conns[c].readyState = "OPEN"}

Finished(c) == conns[c].terminalSeen \/ conns[c].onErrorCalls > 0

\* C1: once the status is completed or failed it keeps that value in every
\* step that is not a reset() (the start of handleGenerate) or a setJob().
C1_TerminalExactlyOnce ==
    [][store.status \in Terminal =>
          (store'.status = store.status
           \/ last'.op \in {"handleGenerate", "setJob"})]_vars

\* C2: audioUrl is non-empty if and only if the status is completed.
C2_AudioUrlIffCompleted ==
    (store.audioUrl # "") <=> (store.status = "completed")

\* C3: error is non-empty if and only if the status is failed.
C3_ErrorIffFailed ==
    (store.error # "") <=> (store.status = "failed")

\* C4: at most one connection is live at any instant; a step that opens a
\* connection leaves every earlier connection closed; and a step that keeps
\* jobId and status opens no connection.
C4_AtMostOneLive ==
    /\ [](Cardinality(LiveConns) <= 1)
    /\ [][/\ Len(conns') > Len(conns) =>
                \A c \in DOMAIN conns : conns'[c].readyState = "CLOSED"
          /\ (store'.jobId = store.jobId /\ store'.status = store.status) =>
                Len(conns') = Len(conns)]_vars

\* C4 witness: the effect ran again for a running job: the first connection
\* is closed and the second one is the only live one.
C4_Witness ==
    /\ Len(conns) >= 2
    /\ conns[1].readyState = "CLOSED"
    /\ LiveConns = {Len(conns)}
    /\ store.status = "running"

\* C5: while the job id stays the same and the job stays pending or running
\* with a stream open, no step closes a connection or opens a new one.
C5_ReactivationIsNoop ==
    [][(/\ store.jobId # ""
        /\ store'.jobId = store.jobId
        /\ store.status \in {"pending", "running"}
        /\ store'.status \in {"pending", "running"}
        /\ LiveConns # {})
       => /\ Len(conns') = Len(conns)
          /\ \A c \in DOMAIN conns :
                conns'[c].readyState = conns[c].readyState]_vars

\* C6: a connection is live only while jobId is non-empty and the status is
\* pending or running.
C6_LiveOnlyWhileActive ==
    \A c \in LiveConns :
        store.jobId # "" /\ store.status \in {"pending", "running"}

\* C6 witness: a job that had a connection is completed and nothing is live.
C6_Witness ==
    /\ store.status = "completed"
    /\ Len(conns) >= 1
    /\ LiveConns = {}

\* C7: a connection that forwarded a terminal frame or called onError is
\* closed, and neither callback is called for it again.
C7_NothingAfterTerminal ==
    /\ [](\A c \in DOMAIN conns :
            Finished(c) => conns[c].readyState = "CLOSED")
    /\ [][\A c \in DOMAIN conns :
            Finished(c) =>
                /\ conns'[c].onProgressCalls = conns[c].onProgressCalls
                /\ conns'[c].onErrorCalls = conns[c].onErrorCalls]_vars

\* C7 witness: a connection forwarded a progress frame and then a terminal
\* frame, and is closed; another one called onError, and is closed.
C7_Witness ==
    \E c, d \in DOMAIN conns :
        /\ conns[c].terminalSeen
        /\ conns[c].onProgressCalls >= 2
        /\ conns[c].readyState = "CLOSED"
        /\ conns[d].onErrorCalls > 0
        /\ conns[d].readyState = "CLOSED"

\* C8: a transport failure calls onError once more with "Connection lost"
\* and closes the connection; onError is called at most once per connection
\* and never for a connection that is already closed.
C8_OnErrorExactlyOnce ==
    /\ [](\A c \in DOMAIN conns :
            /\ conns[c].onErrorCalls <= 1
            /\ conns[c].onErrorCalls = 1 =>
                  /\ conns[c].errorArg = "Connection lost"
                  /\ conns[c].readyState = "CLOSED")
    /\ [][\A c \in DOMAIN conns :
            /\ (last'.op = "onerror" /\ last'.conn = c) =>
                  conns'[c].onErrorCalls = conns[c].onErrorCalls + 1
            /\ conns[c].readyState = "CLOSED" =>
                  conns'[c].onErrorCalls = conns[c].onErrorCalls]_vars

\* C8 witness: one connection failed at the transport, one was closed by a
\* terminal frame and one by the close handle; only the first called onError.
C8_Witness ==
    \E c, d, e \in DOMAIN conns :
        /\ conns[c].onErrorCalls = 1
        /\ conns[c].readyState = "CLOSED"
        /\ conns[d].terminalSeen
        /\ conns[d].onErrorCalls = 0
        /\ conns[e].readyState = "CLOSED"
        /\ ~Finished(e)

\* C9: after a transport error the job is failed with error and message
\* "Connection lost", and no later connection is opened for the job id of a
\* connection that had a transport error.
C9_ConnectionLostNoReconnect ==
    /\ last.op = "onerror" =>
          /\ store.status = "failed"
          /\ store.error = "Connection lost"
          /\ store.message = "Connection lost"
    /\ \A c, d \in DOMAIN conns :
          (conns[c].onErrorCalls > 0 /\ d > c) =>
              conns[d].jobId # conns[c].jobId

\* C9 witness: the transport failed before any frame arrived, and a later
\* submission got its own connection.
C9_Witness ==
    \E c, d \in DOMAIN conns :
        /\ conns[c].onErrorCalls > 0
        /\ conns[c].onProgressCalls = 0
        /\ d > c
        /\ frames = 0

\* C10: after a frame with status completed and a non-empty audio_url the
\* job is completed with progress 1 (100 percent) and that audio_url, and
\* no stream is open.
C10_CompletedFrame ==
    (/\ last.op = "progress"
     /\ last.ev.status = "completed"
     /\ Truthy(last.ev, "audio_url"))
    => /\ store.status = "completed"
       /\ store.progress = 1000
       /\ Percentage(store.progress) = 100
       /\ store.audioUrl = last.ev.audio_url
       /\ conns[last.conn].readyState = "CLOSED"
       /\ LiveConns = {}

\* C10 witness: a progress frame and then a completed frame that carries an
\* audio_url and a progress below 1.
C10_Witness ==
    /\ last.op = "progress"
    /\ last.ev.status = "completed"
    /\ Truthy(last.ev, "audio_url")
    /\ last.ev.progress < 1000
    /\ frames = 2
    /\ store.status = "completed"

\* C11: after a frame with status failed the job is failed, the error text
\* is shown, and error is the frame's error field, or its message field
\* when the frame has no error field.
C11_FailedFrame ==
    (last.op = "progress" /\ last.ev.status = "failed")
    => /\ store.status = "failed"
       /\ Render(store).errorVisible
       /\ store.error = IF "error" \in DOMAIN last.ev
                        THEN last.ev.error
                        ELSE last.ev.message

\* C11 witness: a progress frame and then a failed frame whose error field
\* is present but empty while its message is not.
C11_Witness ==
    /\ last.op = "progress"
    /\ last.ev.status = "failed"
    /\ "error" \in DOMAIN last.ev
    /\ last.ev.error = ""
    /\ last.ev.message # ""
    /\ frames = 2
    /\ store.status = "failed"

\* C12: after a submission succeeded the job is pending with the returned
\* job_id, progress 0, the starting message and empty audioUrl and error;
\* and a pending job never shows an audioUrl or an error.
C12_SubmitSucceeds ==
    /\ last.op = "setJob" =>
          store = [jobId |-> last.arg, status |-> "pending", progress |-> 0,
                   message |-> "Iniciando...", audioUrl |-> "", error |-> ""]
    /\ store.status = "pending" =>
          (store.audioUrl = "" /\ store.error = "" /\ store.jobId # "")

\* C12 witness: the second job was just accepted after the first job's
\* stream had delivered a terminal frame.
C12_Witness ==
    /\ last.op = "setJob"
    /\ store.jobId = JobName(2)
    /\ Len(conns) >= 2
    /\ conns[1].terminalSeen
    /\ store.status = "pending"

\* C13: the step in which startProduction rejects leaves the job failed (not
\* pending) with error equal to the failure reason, opens no connection and
\* issues no request.
C13_SubmitRejects ==
    [][last'.op = "catch" =>
          /\ store'.status = "failed"
          /\ store'.error = last'.arg
          /\ last'.arg \in RejectReasons
          /\ Len(conns') = Len(conns)
          /\ LiveConns' = {}
          /\ inflight' = inflight - 1
          /\ clicks' = clicks
          /\ issued' = issued]_vars

\* C13 witness: the only submission so far was rejected: the job is failed,
\* no job id was issued and no connection was ever opened.
C13_Witness ==
    /\ last.op = "catch"
    /\ store.status = "failed"
    /\ issued = 0
    /\ conns = <<>>
    /\ inflight = 0

\* C14: calling the close handle of any connection once or twice gives the
\* same closed connection and changes nothing else of it, it changes nothing
\* at all when the connection is already closed, and a closed connection is
\* never open again and gets no callback.
C14_CloseHandleIdempotent ==
    /\ [](\A c \in DOMAIN conns :
            LET once == CloseHandle(conns, c)
            IN  /\ CloseHandle(once, c) = once
                /\ once = [conns EXCEPT ![c].readyState = "CLOSED"]
                /\ conns[c].readyState = "CLOSED" => once = conns)
    /\ [][\A c \in DOMAIN conns :
            conns[c].readyState = "CLOSED" => conns'[c] = conns[c]]_vars

\* C14 witness: the effect's cleanup called the close handle of a connection
\* that had closed itself on a terminal frame.
C14_Witness ==
    /\ last.op = "progress"
    /\ IsTerminalFrame(last.ev)
    /\ conns[last.conn].terminalSeen
    /\ conns[last.conn].readyState = "CLOSED"
    /\ cleanup = 0
    /\ deps = <<store.jobId, store.status>>

\* C15 as stated: after a frame whose status is not terminal the job is
\* running, with the frame's progress and message.
C15_NonTerminalFrameRuns ==
    (last.op = "progress" /\ ~IsTerminalFrame(last.ev))
    => /\ store.status = "running"
       /\ store.progress = last.ev.progress
       /\ store.message = last.ev.message

\* C15 amended: after a frame whose status is not terminal the job has the
\* frame's status (pending or running), progress and message.
C15_NonTerminalFrameCarried ==
    (last.op = "progress" /\ ~IsTerminalFrame(last.ev))
    => /\ store.status = last.ev.status
       /\ store.status \in {"pending", "running"}
       /\ store.progress = last.ev.progress
       /\ store.message = last.ev.message

\* C15 witness: a running frame and then a pending frame: the job is pending
\* again, on its third connection.
C15_Witness ==
    /\ last.op = "progress"
    /\ last.ev.status = "pending"
    /\ last.ev.message # ""
    /\ store.status = "pending"
    /\ Len(conns) = 3
    /\ frames = 2

\* C16: reset() of any reachable state gives the idle defaults, doing it
\* twice gives the same, and right after a Generate click (the request is
\* sent) the store holds the idle defaults.
C16_Reset ==
    /\ reset(store) = [jobId |-> "", status |-> "idle", progress |-> 0,
                       message |-> "", audioUrl |-> "", error |-> ""]
    /\ reset(reset(store)) = reset(store)
    /\ last.op = "handleGenerate" => store = reset(store)

\* C16 witness: Generate was clicked a second time, after the stream of the
\* first job had delivered a terminal frame or a transport error.
C16_Witness ==
    /\ last.op = "handleGenerate"
    /\ clicks = 2
    /\ inflight = 1
    /\ Len(conns) >= 1
    /\ \E c \in DOMAIN conns : Finished(c)
    /\ store.status = "idle"

\* C17: the bar is shown iff the status is neither idle nor completed, the
\* error text iff it is failed, the percentage is progress * 100 rounded to
\* the nearest integer (half up), and the audio iff completed with an
\* audioUrl.
C17_Projection ==
    LET r == Render(store)
    IN  /\ r.showBar <=> store.status \notin {"idle", "completed"}
        /\ r.errorVisible <=> store.status = "failed"
        /\ 10 * r.percentage - 5 <= store.progress
        /\ store.progress < 10 * r.percentage + 5
        /\ r.audio <=> (store.status = "completed" /\ store.audioUrl # "")

\* C17 witness: a failed job at progress 0.405 shows the bar, the error text
\* and 41 percent.
C17_Witness ==
    /\ store.status = "failed"
    /\ store.progress = 405
    /\ Render(store).percentage = 41
    /\ Render(store).showBar
    /\ ~Render(store).audio

\* C18: a frame that fails to decode calls no callback, leaves the store
\* unchanged and the connection open (so that later frames reach it).
C18_MalformedFrameDropped ==
    [][last'.op = "malformed" =>
          /\ store' = store
          /\ Len(conns') = Len(conns)
          /\ \A c \in DOMAIN conns :
                /\ conns'[c].onProgressCalls = conns[c].onProgressCalls
                /\ conns'[c].onErrorCalls = conns[c].onErrorCalls
                /\ conns'[c].readyState = conns[c].readyState
          /\ conns'[last'.conn].readyState = "OPEN"]_vars

\* C18 witness: a connection got a frame that failed to decode and then
\* delivered a well-formed frame.
C18_Witness ==
    /\ last.op = "progress"
    /\ conns[last.conn].parseFailed
    /\ conns[last.conn].onProgressCalls = 1
    /\ store.status = "running"

\* C19 as stated: after a frame that fails to decode the connection is
\* closed and the job is failed.
C19_MalformedFrameFatal ==
    last.op = "malformed" =>
        /\ conns[last.conn].readyState = "CLOSED"
        /\ store.status = "failed"

\* C19 amended: after a frame that fails to decode the connection is still
\* open and the job is still pending or running, and not failed.
C19_MalformedFrameNotFatal ==
    last.op = "malformed" =>
        /\ conns[last.conn].readyState = "OPEN"
        /\ conns[last.conn].parseFailed
        /\ store.status \in {"pending", "running"}
        /\ store.error = ""

\* C19 witness: a frame failed to decode on the connection of a running job
\* that had delivered a frame before.
C19_Witness ==
    /\ last.op = "malformed"
    /\ store.status = "running"
    /\ conns[last.conn].onProgressCalls = 1
    /\ conns[last.conn].readyState = "OPEN"

\* C20: a non-empty audioUrl keeps its value in every step that is not a
\* reset() (the start of handleGenerate) or a setJob().
C20_AudioUrlImmutable ==
    [][store.audioUrl # "" =>
          (store'.audioUrl = store.audioUrl
           \/ last'.op \in {"handleGenerate", "setJob"})]_vars

\* C20 witness: the audioUrl of a completed job is still there after a
\* rejected submission made the job failed.
C20_Witness ==
    /\ store.audioUrl # ""
    /\ store.status = "failed"
    /\ last.op = "catch"

\* C21: a frame whose status is not terminal stores the frame's progress as
\* it is, also when it is lower than the stored one, and leaves jobId,
\* audioUrl and error as they were.
C21_ProgressAsIs ==
    [][(last'.op = "progress" /\ ~IsTerminalFrame(last'.ev)) =>
          /\ store'.progress = last'.ev.progress
          /\ last'.before = store.progress
          /\ store'.jobId = store.jobId
          /\ store'.audioUrl = store.audioUrl
          /\ store'.error = store.error]_vars

\* C21 witness: a running frame reported a progress lower than the stored
\* one, and the stored progress went down.
C21_Witness ==
    /\ last.op = "progress"
    /\ last.ev.status = "running"
    /\ last.ev.progress < last.before
    /\ store.progress = last.ev.progress

\* C22: at most one startProduction request is unresolved at any time.
C22_OneSubmitOutstanding == inflight <= 1

\* C23: a frame or a transport error is only ever handled for a connection
\* that was opened for the job id the store holds; every live connection is
\* one of the current job id.
C23_EventsOfCurrentJob ==
    /\ [](\A c \in LiveConns : conns[c].jobId = store.jobId)
    /\ [][last'.op \in {"progress", "onerror"} =>
            /\ last'.conn \in DOMAIN conns
            /\ conns[last'.conn].jobId = store.jobId
            /\ conns[last'.conn].readyState = "OPEN"]_vars

\* C23 witness: the job id changed from the first job to the second while
\* the first job's stream was open; that stream was closed without having
\* delivered anything and the frame just applied came from the second job's.
C23_Witness ==
    /\ last.op = "progress"
    /\ Len(conns) >= 2
    /\ conns[1].jobId = JobName(1)
    /\ conns[1].readyState = "CLOSED"
    /\ ~Finished(1)
    /\ conns[1].onProgressCalls = 0
    /\ conns[last.conn].jobId = JobName(2)
    /\ store.jobId = JobName(2)

\* C24: every job that is pending in the store is later completed or failed
\* in the store, with no connection live.
C24_PendingJobTerminates ==
    \A n \in 1..MaxClicks :
        (store.jobId = JobName(n) /\ store.status = "pending")
        ~> (/\ store.jobId = JobName(n)
            /\ store.status \in Terminal
            /\ LiveConns = {})

\* C25: handleGenerate with a blank content sends no request and changes no
\* state.  A request that is sent never carries both voice_name and speaker:
\* outside a podcast script a "qwen:" voice gives only speaker (the voice
\* without its prefix) and a "clone:" voice only voice_name; the request
\* carries speaker_voices exactly when the format is podcast_script, and
\* then it carries neither voice_name nor speaker.
C25_RequestFields ==
    /\ [][ContentIsBlank(editor.content)
            => UNCHANGED <<production, request, panels>>]_vars
    /\ [][last'.op = "handleGenerate" =>
            LET carried == DOMAIN request' \cap {"voice_name", "speaker"}
                podcast == editor.format = "podcast_script"
            IN  /\ ~ContentIsBlank(request'.content)
                /\ carried # {"voice_name", "speaker"}
                /\ (~podcast /\ StartsWith(voice.selectedVoice, "qwen:"))
                      => /\ carried = {"speaker"}
                         /\ "qwen:" \o request'.speaker = voice.selectedVoice
                /\ (~podcast /\ StartsWith(voice.selectedVoice, "clone:"))
                      => /\ carried = {"voice_name"}
                         /\ "clone:" \o request'.voice_name = voice.selectedVoice
                /\ "speaker_voices" \in DOMAIN request' <=> podcast
                /\ podcast => /\ carried = {}
                              /\ request'.speaker_voices = voice.speakerVoiceMap]_vars

\* a podcast script was sent while a "qwen:" voice was selected
C25_Witness ==
    /\ last.op = "handleGenerate"
    /\ request.format = "podcast_script"
    /\ voice.selectedVoice = "qwen:Vivian"
    /\ request.speaker_voices # EmptyMap
    /\ DOMAIN request \cap {"voice_name", "speaker"} = {}

\* C26: the format of the editor follows the latest content: a detection
\* answer computed for an older content does not overwrite it, so while the
\* content is blank the format is plain_text with no detected speakers.
C26_FormatFollowsContent ==
    ContentIsBlank(editor.content)
        => editor.format = "plain_text" /\ editor.detectedSpeakers = <<>>

\* C27: while a named preset is selected, computedInstruct is the instruct
\* of that preset.
C27_NamedPresetInstruct ==
    \A i \in DOMAIN style.presets :
        style.preset = style.presets[i].name
            => style.computedInstruct = style.presets[i].instruct

\* C28: selectedModality is non-null exactly when the preset is "(modality)".
C28_ModalityIffPreset ==
    style.selectedModality # Null <=> style.preset = "(modality)"

====
